---- MODULE Spec2Model ----
(***************************************************************************)
(* Model of sendDowntimeStats (server/client.js): the downtime-interval    *)
(* aggregation pass.  One pass lists the monitors, issues one heartbeat    *)
(* range query per monitor (all at once, Promise.all over async            *)
(* callbacks), folds every query result into downtime intervals and a      *)
(* total, appends them to two arrays shared by all callbacks, and emits    *)
(* both arrays once every callback has finished.                           *)
(*                                                                         *)
(* Time is counted in milliseconds, the unit of `new Date(a) - new         *)
(* Date(b)`.  The code's timeDifferenceSec and totalDowntime are that      *)
(* difference divided by 1000 (a possibly fractional number of seconds);   *)
(* the model carries the same quantities multiplied by 1000 so that they   *)
(* stay integers, and formatTime takes its argument in that unit.          *)
(* JavaScript runs each callback to completion between two awaits, so the  *)
(* continuation of a heartbeat query (lines 76-127) is one atomic action.  *)
(* The monitor_name and monitor_url fields of the emitted records are      *)
(* copies of the monitor row selected by monitor_id and are left out.      *)
(*                                                                         *)
(* Timestamps are instants in milliseconds; the heartbeat query compares   *)
(* them with the window bounds and returns them in ascending order, equal  *)
(* timestamps included.  A heartbeat status is 0 (down), 1 (up) or a value *)
(* that is neither (pending, maintenance), which the fold ignores.         *)
(*                                                                         *)
(* Two specifications share the actions.  Spec starts from a heartbeat     *)
(* table in which the first monitor has any history of up to MaxRows rows  *)
(* and every other monitor one down heartbeat: it carries the properties   *)
(* of the fold of one monitor.  SpecSparse starts from a table with at     *)
(* most one row for every monitor, in every combination: it carries the    *)
(* properties of the pass as a whole.  SpecLive adds the scheduling of the  *)
(* queries and continuations (weak fairness) and starts from the tables    *)
(* in which a monitor has no row or one down heartbeat: it carries the     *)
(* termination of the pass, which does not depend on the rows.             *)
(* SpecFormat applies formatTime on its own to every whole number of       *)
(* seconds up to MaxSeconds (more than a day).                             *)
(***************************************************************************)
EXTENDS Integers, Sequences, FiniteSets, TLC

\* ---------------------------------------------------------------- bounds
NumMonitors == 2      \* rows of the monitor table
MaxRows == 3          \* heartbeat rows of the monitor whose history varies
MaxTick == 2          \* stored timestamps and window bounds are 0..MaxTick ticks
TickMs == 500         \* length of one tick in milliseconds
MaxSeconds == 90000   \* formatTime is applied to 0..MaxSeconds whole seconds

\* ------------------------------------------------------ program constants
MsPerSec == 1000      \* the `/ 1000` turning a Date difference into seconds
DOWN == 0             \* beat.status === 0
UP == 1               \* beat.status === 1
PENDING == 2          \* a heartbeat status that is neither 0 nor 1
NoTime == -1          \* downTime = null

Monitors == 1..NumMonitors
Times == {k * TickMs : k \in 0..MaxTick}
Statuses == {DOWN, UP, PENDING}
Beat == [time : Times, status : Statuses]

\* ------------------------------------------------------------ formatTime
Digits == <<"0", "1", "2", "3", "4", "5", "6", "7", "8", "9">>

\* String(n) for an integer n, as a sequence of characters
RECURSIVE String(_)
String(n) == IF n < 0 THEN <<"-">> \o String(-n)
             ELSE IF n < 10 THEN <<Digits[n + 1]>>
             ELSE Append(String(n \div 10), Digits[(n % 10) + 1])

\* a % b of JavaScript: the remainder has the sign of a
rem(a, b) == IF a >= 0 THEN a % b ELSE -((-a) % b)

\* s.padStart(2, '0')
padStart2(s) == IF Len(s) >= 2 THEN s ELSE IF Len(s) = 1 THEN <<"0">> \o s ELSE <<"0", "0">>

\* formatTime without the padStart calls
formatTime_unpadded(timeMs) ==
    LET hours == String(timeMs \div (3600 * MsPerSec))
        minutes == String(rem(timeMs, 3600 * MsPerSec) \div (60 * MsPerSec))
        seconds == String(rem(timeMs, 60 * MsPerSec) \div MsPerSec)
    IN hours \o <<":">> \o minutes \o <<":">> \o seconds

\* formatTime with the hours carried into days: Math.floor(time / 3600) % 24
formatTime_dayCarry(timeMs) ==
    LET hours == padStart2(String((timeMs \div (3600 * MsPerSec)) % 24))
        minutes == padStart2(String(rem(timeMs, 3600 * MsPerSec) \div (60 * MsPerSec)))
        seconds == padStart2(String(rem(timeMs, 60 * MsPerSec) \div MsPerSec))
    IN hours \o <<":">> \o minutes \o <<":">> \o seconds

\* formatTime(time) with time = timeMs / 1000 seconds:
\*   Math.floor(time / 3600), Math.floor((time % 3600) / 60), Math.floor(time % 60)
\* (\div rounds down, as Math.floor does)
formatTime(timeMs) ==
    LET hours == padStart2(String(timeMs \div (3600 * MsPerSec)))
        minutes == padStart2(String(rem(timeMs, 3600 * MsPerSec) \div (60 * MsPerSec)))
        seconds == padStart2(String(rem(timeMs, 60 * MsPerSec) \div MsPerSec))
    IN hours \o <<":">> \o minutes \o <<":">> \o seconds

\* ------------------------------------------------------------- the stores
\* sorted by time ascending (ORDER BY time ASC); equal timestamps may repeat
IsAscending(s) == \A i \in 1..(Len(s) - 1) : s[i].time <= s[i + 1].time

SeqsOfLen(k) == {s \in [1..k -> Beat] : IsAscending(s)}

\* the time-ordered rows one monitor_id can have, up to n of them
BeatSeqs(n) == UNION {SeqsOfLen(k) : k \in 0..n}

\* the rows of every monitor but the first: one down heartbeat at time 0
otherRows == <<[time |-> 0, status |-> DOWN]>>

\* contents of the heartbeat table, one time-ordered row sequence per
\* monitor_id: any history of up to MaxRows rows for the first monitor
HistoryTables ==
    {[m \in Monitors |-> IF m = 1 THEN s ELSE otherRows] : s \in BeatSeqs(MaxRows)}

\* contents of the heartbeat table with at most one row per monitor
SparseTables == [Monitors -> BeatSeqs(1)]

\* the windows a pass is called with; startTime > endTime is among them
StartTimes == {0, TickMs}
EndTimes == {0, (MaxTick - 1) * TickMs, MaxTick * TickMs}

VARIABLES
    heartbeat,          \* the heartbeat table: monitor_id -> rows in time order
    startTime,          \* argument startTime of the pass
    endTime,            \* argument endTime of the pass
    pc,                 \* position of sendDowntimeStats
    monitorList,        \* const monitorList (line 60)
    task,               \* state of the async callback of each monitor (line 64)
    downtimeStats,      \* let downtimeStats (line 50)
    totalDowntimeStats, \* let totalDowntimeStats (line 51)
    queries,            \* number of R.getAll calls issued so far
    emitted,            \* the payloads passed to socket.emit (line 130)
    time,               \* argument of a call of formatTime, in seconds
    formatted           \* what that call of formatTime returned

vars == <<heartbeat, startTime, endTime, pc, monitorList, task,
          downtimeStats, totalDowntimeStats, queries, emitted, time, formatted>>

\* SELECT id, name, url FROM monitor  (rows in the order the query returns them)
monitorTable == [i \in 1..NumMonitors |-> i]

\* the heartbeat query without its `time >= datetime(?)` condition
rangeQuery_noLowerBound(table, id, from, to) ==
    SelectSeq(table[id], LAMBDA b : b.time <= to)

\* SELECT * FROM heartbeat WHERE monitor_id = ? AND time >= ? AND time <= ?
\* ORDER BY time ASC
rangeQuery(table, id, from, to) ==
    SelectSeq(table[id], LAMBDA b : b.time >= from /\ b.time <= to)

\* ---------------------------------------------------------------- the fold
\* length of an interval record in milliseconds
exactMs(r) == r.upTime - r.downTime

\* sum of upTime - downTime over the records, in milliseconds
RECURSIVE sumExact(_)
sumExact(s) == IF s = <<>> THEN 0 ELSE exactMs(Head(s)) + sumExact(Tail(s))

\* the callback starting as if the monitor were down since the window start
foldInit_downAtStart(stats) ==
    [isDown |-> TRUE, downTime |-> startTime, totalDowntime |-> 0, downtimeStats |-> stats]

\* totalDowntime declared next to downtimeStats (line 50) instead of inside
\* the callback: one running total shared by all monitors
foldInit_sharedTotal(stats) ==
    [isDown |-> FALSE, downTime |-> NoTime, totalDowntime |-> sumExact(stats),
     downtimeStats |-> stats]

\* state of one callback: lines 76-78, plus the shared array it pushes to
foldInit(stats) ==
    [isDown |-> FALSE, downTime |-> NoTime, totalDowntime |-> 0, downtimeStats |-> stats]

\* the loop body without `isDown = false` and `downTime = null` at line 87
\* and line 102: the outage is never closed
forEachBeat_staysDown(id, st, beat) ==
    LET s1 == IF beat.status = DOWN /\ ~st.isDown
              THEN [st EXCEPT !.isDown = TRUE, !.downTime = beat.time]
              ELSE st
    IN IF s1.isDown /\ beat.status = UP
       THEN LET upTime == beat.time
                timeDifferenceSec == upTime - s1.downTime
            IN [s1 EXCEPT !.totalDowntime = s1.totalDowntime + timeDifferenceSec,
                          !.downtimeStats = Append(s1.downtimeStats,
                              [monitor_id |-> id, downTime |-> s1.downTime, upTime |-> upTime,
                               duration |-> formatTime(timeDifferenceSec)])]
       ELSE s1

\* the loop body with `beat.status !== 0` for `beat.status === 1` at line 86
forEachBeat_closesOnNotDown(id, st, beat) ==
    LET s1 == IF beat.status = DOWN /\ ~st.isDown
              THEN [st EXCEPT !.isDown = TRUE, !.downTime = beat.time]
              ELSE st
    IN IF s1.isDown /\ beat.status # DOWN
       THEN LET upTime == beat.time
                timeDifferenceSec == upTime - s1.downTime
            IN [isDown |-> FALSE,
                downTime |-> NoTime,
                totalDowntime |-> s1.totalDowntime + timeDifferenceSec,
                downtimeStats |-> Append(s1.downtimeStats,
                    [monitor_id |-> id, downTime |-> s1.downTime, upTime |-> upTime,
                     duration |-> formatTime(timeDifferenceSec)])]
       ELSE s1

\* the loop body without the `isDown &&` test at line 86: an up observation
\* outside an outage pushes an interval of its own
forEachBeat_closesWhenUp(id, st, beat) ==
    LET s1 == IF beat.status = DOWN /\ ~st.isDown
              THEN [st EXCEPT !.isDown = TRUE, !.downTime = beat.time]
              ELSE st
    IN IF beat.status = UP
       THEN LET upTime == beat.time
                downTime == IF s1.isDown THEN s1.downTime ELSE upTime
                timeDifferenceSec == upTime - downTime
            IN [isDown |-> FALSE,
                downTime |-> NoTime,
                totalDowntime |-> s1.totalDowntime + timeDifferenceSec,
                downtimeStats |-> Append(s1.downtimeStats,
                    [monitor_id |-> id, downTime |-> downTime, upTime |-> upTime,
                     duration |-> formatTime(timeDifferenceSec)])]
       ELSE s1

\* the loop body with `beat.status !== 1` for `beat.status === 0` at line 82
forEachBeat_opensOnNotUp(id, st, beat) ==
    LET s1 == IF beat.status # UP /\ ~st.isDown
              THEN [st EXCEPT !.isDown = TRUE, !.downTime = beat.time]
              ELSE st
    IN IF s1.isDown /\ beat.status = UP
       THEN LET upTime == beat.time
                timeDifferenceSec == upTime - s1.downTime
            IN [isDown |-> FALSE,
                downTime |-> NoTime,
                totalDowntime |-> s1.totalDowntime + timeDifferenceSec,
                downtimeStats |-> Append(s1.downtimeStats,
                    [monitor_id |-> id, downTime |-> s1.downTime, upTime |-> upTime,
                     duration |-> formatTime(timeDifferenceSec)])]
       ELSE s1

\* the loop body without `downTime = null` at line 102
forEachBeat_keepsDownTime(id, st, beat) ==
    LET s1 == IF beat.status = DOWN /\ ~st.isDown
              THEN [st EXCEPT !.isDown = TRUE, !.downTime = beat.time]
              ELSE st
    IN IF s1.isDown /\ beat.status = UP
       THEN LET upTime == beat.time
                timeDifferenceSec == upTime - s1.downTime
            IN [isDown |-> FALSE,
                downTime |-> s1.downTime,
                totalDowntime |-> s1.totalDowntime + timeDifferenceSec,
                downtimeStats |-> Append(s1.downtimeStats,
                    [monitor_id |-> id, downTime |-> s1.downTime, upTime |-> upTime,
                     duration |-> formatTime(timeDifferenceSec)])]
       ELSE s1

\* body of heartbeats.forEach (lines 80-104)
forEachBeat(id, st, beat) ==
    LET s1 == IF beat.status = DOWN /\ ~st.isDown
              THEN [st EXCEPT !.isDown = TRUE, !.downTime = beat.time]
              ELSE st
    IN IF s1.isDown /\ beat.status = UP
       THEN LET upTime == beat.time
                timeDifferenceSec == upTime - s1.downTime
            IN [isDown |-> FALSE,
                downTime |-> NoTime,
                totalDowntime |-> s1.totalDowntime + timeDifferenceSec,
                downtimeStats |-> Append(s1.downtimeStats,
                    [monitor_id |-> id, downTime |-> s1.downTime, upTime |-> upTime,
                     duration |-> formatTime(timeDifferenceSec)])]
       ELSE s1

\* heartbeats.forEach(...) (line 80)
RECURSIVE forEach(_, _, _)
forEach(id, st, beats) ==
    IF beats = <<>> THEN st
    ELSE forEach(id, forEachBeat(id, st, Head(beats)), Tail(beats))

\* the block after the loop without `totalDowntime += timeDifferenceSec`
closeAtEnd_totalNotUpdated(id, st, end) ==
    IF st.isDown
    THEN LET timeDifferenceSec == end - st.downTime
         IN [st EXCEPT !.downtimeStats = Append(st.downtimeStats,
                           [monitor_id |-> id, downTime |-> st.downTime, upTime |-> end,
                            duration |-> formatTime(timeDifferenceSec)])]
    ELSE st

\* no block after the loop: an outage open at the end of the loop is dropped
closeAtEnd_omitted(id, st, end) == st

\* the block after the loop with `unshift` for `push` at line 110
closeAtEnd_unshift(id, st, end) ==
    IF st.isDown
    THEN LET timeDifferenceSec == end - st.downTime
         IN [st EXCEPT !.totalDowntime = st.totalDowntime + timeDifferenceSec,
                       !.downtimeStats =
                           <<[monitor_id |-> id, downTime |-> st.downTime, upTime |-> end,
                              duration |-> formatTime(timeDifferenceSec)]>>
                           \o st.downtimeStats]
    ELSE st

\* if (isDown) { ... } after the loop (lines 106-118)
closeAtEnd(id, st, end) ==
    IF st.isDown
    THEN LET timeDifferenceSec == end - st.downTime
         IN [st EXCEPT !.totalDowntime = st.totalDowntime + timeDifferenceSec,
                       !.downtimeStats = Append(st.downtimeStats,
                           [monitor_id |-> id, downTime |-> st.downTime, upTime |-> end,
                            duration |-> formatTime(timeDifferenceSec)])]
    ELSE st

\* lines 76-118: the fold of one monitor's heartbeats
foldMonitor(id, stats, beats, end) ==
    closeAtEnd(id, forEach(id, foldInit(stats), beats), end)

\* the total record pushed only for a monitor that was down
pushTotal_onlyWhenDown(totals, id, totalDowntime) ==
    IF totalDowntime > 0
    THEN Append(totals, [monitor_id |-> id, downTime |-> formatTime(totalDowntime)])
    ELSE totals

\* totalDowntimeStats.push(...) (lines 121-127)
pushTotal(totals, id, totalDowntime) ==
    Append(totals, [monitor_id |-> id, downTime |-> formatTime(totalDowntime)])

\* ------------------------------------------------------------------ actions
Init ==
    /\ heartbeat \in HistoryTables
    /\ startTime = 0
    /\ endTime = 0
    /\ pc = "idle"
    /\ monitorList = <<>>
    /\ task = [m \in Monitors |-> "none"]
    /\ downtimeStats = <<>>
    /\ totalDowntimeStats = <<>>
    /\ queries = 0
    /\ emitted = <<>>
    /\ time = 0
    /\ formatted = <<>>

\* sendDowntimeStats(socket, startTime, endTime) runs up to its first await:
\* lines 50-60, the monitor query is issued
Call(from, to) ==
    /\ pc = "idle"
    /\ startTime' = from
    /\ endTime' = to
    /\ queries' = queries + 1
    /\ pc' = "listing"
    /\ UNCHANGED <<time, formatted, heartbeat, monitorList, task, downtimeStats, totalDowntimeStats, emitted>>

\* the monitor query resolves; monitorList.map starts every callback, each of
\* which runs up to its await and so issues its heartbeat query (lines 60-74)
ListResolve ==
    /\ pc = "listing"
    /\ monitorList' = monitorTable
    /\ task' = [m \in Monitors |-> "fetching"]
    /\ queries' = queries + Len(monitorTable)
    /\ pc' = "awaitAll"
    /\ UNCHANGED <<time, formatted, heartbeat, startTime, endTime, downtimeStats, totalDowntimeStats, emitted>>

\* the monitor query rejects: the await at line 60 throws
ListReject ==
    /\ pc = "listing"
    /\ pc' = "rejected"
    /\ UNCHANGED <<time, formatted, heartbeat, startTime, endTime, monitorList, task,
                   downtimeStats, totalDowntimeStats, queries, emitted>>

\* the heartbeat query of monitor m resolves: the callback runs lines 76-127
FetchResolve(m) ==
    /\ task[m] = "fetching"
    /\ LET heartbeats == rangeQuery(heartbeat, m, startTime, endTime)
           st == foldMonitor(m, downtimeStats, heartbeats, endTime)
       IN /\ downtimeStats' = st.downtimeStats
          /\ totalDowntimeStats' = pushTotal(totalDowntimeStats, m, st.totalDowntime)
    /\ task' = [task EXCEPT ![m] = "done"]
    /\ UNCHANGED <<time, formatted, heartbeat, startTime, endTime, pc, monitorList, queries, emitted>>

\* the heartbeat query of monitor m rejects: its callback throws at line 65
\* and Promise.all rejects with the first rejection (the other callbacks
\* keep running)
FetchReject(m) ==
    /\ task[m] = "fetching"
    /\ task' = [task EXCEPT ![m] = "failed"]
    /\ pc' = IF pc = "awaitAll" THEN "rejected" ELSE pc
    /\ UNCHANGED <<time, formatted, heartbeat, startTime, endTime, monitorList,
                   downtimeStats, totalDowntimeStats, queries, emitted>>

\* Promise.allSettled for Promise.all: the pass goes on to line 130 once
\* every callback has finished or thrown
Emit_whenSettled ==
    /\ pc \in {"awaitAll", "rejected"}
    /\ monitorList # <<>>
    /\ emitted = <<>>
    /\ \A m \in Monitors : task[m] \in {"done", "failed"}
    /\ emitted' = Append(emitted, [downtimeStats |-> downtimeStats,
                                   totalDowntime |-> totalDowntimeStats])
    /\ pc' = "emitted"
    /\ UNCHANGED <<time, formatted, heartbeat, startTime, endTime, monitorList, task,
                   downtimeStats, totalDowntimeStats, queries>>

\* Promise.race for Promise.all: the pass goes on to line 130 as soon as one
\* callback has finished
Emit_afterFirst ==
    /\ pc = "awaitAll"
    /\ \E m \in Monitors : task[m] = "done"
    /\ emitted' = Append(emitted, [downtimeStats |-> downtimeStats,
                                   totalDowntime |-> totalDowntimeStats])
    /\ pc' = "emitted"
    /\ UNCHANGED <<time, formatted, heartbeat, startTime, endTime, monitorList, task,
                   downtimeStats, totalDowntimeStats, queries>>

\* line 130 guarded by `if (downtimeStats.length)`: nothing is emitted when
\* no monitor was down
Emit_onlyWithIntervals ==
    /\ pc = "awaitAll"
    /\ \A m \in Monitors : task[m] = "done"
    /\ downtimeStats # <<>>
    /\ emitted' = Append(emitted, [downtimeStats |-> downtimeStats,
                                   totalDowntime |-> totalDowntimeStats])
    /\ pc' = "emitted"
    /\ UNCHANGED <<time, formatted, heartbeat, startTime, endTime, monitorList, task,
                   downtimeStats, totalDowntimeStats, queries>>

\* Promise.all resolves once every callback has finished; line 130
Emit ==
    /\ pc = "awaitAll"
    /\ \A m \in Monitors : task[m] = "done"
    /\ emitted' = Append(emitted, [downtimeStats |-> downtimeStats,
                                   totalDowntime |-> totalDowntimeStats])
    /\ pc' = "emitted"
    /\ UNCHANGED <<time, formatted, heartbeat, startTime, endTime, monitorList, task,
                   downtimeStats, totalDowntimeStats, queries>>

Next ==
    \/ \E from \in StartTimes, to \in EndTimes : Call(from, to)
    \/ ListResolve
    \/ ListReject
    \/ \E m \in Monitors : FetchResolve(m)
    \/ \E m \in Monitors : FetchReject(m)
    \/ Emit

Spec == Init /\ [][Next]_vars

\* the same pass over a heartbeat table with at most one row per monitor
InitSparse ==
    /\ heartbeat \in SparseTables
    /\ startTime = 0
    /\ endTime = 0
    /\ pc = "idle"
    /\ monitorList = <<>>
    /\ task = [m \in Monitors |-> "none"]
    /\ downtimeStats = <<>>
    /\ totalDowntimeStats = <<>>
    /\ queries = 0
    /\ emitted = <<>>
    /\ time = 0
    /\ formatted = <<>>

SpecSparse == InitSparse /\ [][Next]_vars

\* the pass with its scheduling: every query the pass has issued is settled by
\* the database, one way or the other, and the event loop runs the
\* continuation of a settled promise
Fairness ==
    /\ WF_vars(ListResolve \/ ListReject)
    /\ \A m \in Monitors : WF_vars(FetchResolve(m) \/ FetchReject(m))
    /\ WF_vars(Emit)

\* the pass over a heartbeat table in which every monitor has either no row
\* or one down heartbeat at time 0
InitLive ==
    /\ heartbeat \in [Monitors -> {<<>>, otherRows}]
    /\ startTime = 0
    /\ endTime = 0
    /\ pc = "idle"
    /\ monitorList = <<>>
    /\ task = [m \in Monitors |-> "none"]
    /\ downtimeStats = <<>>
    /\ totalDowntimeStats = <<>>
    /\ queries = 0
    /\ emitted = <<>>
    /\ time = 0
    /\ formatted = <<>>

SpecLive == InitLive /\ [][Next]_vars /\ Fairness

\* formatTime called on its own with a whole number of seconds
InitFormat ==
    /\ heartbeat = [m \in Monitors |-> <<>>]
    /\ startTime = 0
    /\ endTime = 0
    /\ pc = "idle"
    /\ monitorList = <<>>
    /\ task = [m \in Monitors |-> "none"]
    /\ downtimeStats = <<>>
    /\ totalDowntimeStats = <<>>
    /\ queries = 0
    /\ emitted = <<>>
    /\ time \in 0..MaxSeconds
    /\ formatted = <<>>

\* formatTime(time) (lines 53-58)
Format ==
    /\ formatted = <<>>
    /\ formatted' = formatTime(time * MsPerSec)
    /\ UNCHANGED <<heartbeat, startTime, endTime, pc, monitorList, task,
                   downtimeStats, totalDowntimeStats, queries, emitted, time>>

NextFormat == Format

SpecFormat == InitFormat /\ [][NextFormat]_vars

TypeOK ==
    /\ pc \in {"idle", "listing", "awaitAll", "emitted", "rejected"}
    /\ task \in [Monitors -> {"none", "fetching", "done", "failed"}]
    /\ queries \in 0..(1 + NumMonitors)
    /\ Len(emitted) <= 1

\* ------------------------------------------------- reading the result back
\* the records of one monitor, in the order they were pushed
recordsOf(stats, m) == SelectSeq(stats, LAMBDA r : r.monitor_id = m)

\* the heartbeats the range query of monitor m returns in this pass
inRange(m) == rangeQuery(heartbeat, m, startTime, endTime)

digitValue(c) == CHOOSE d \in 0..9 : Digits[d + 1] = c

RECURSIVE number(_)
number(s) == IF s = <<>> THEN 0
             ELSE 10 * number(SubSeq(s, 1, Len(s) - 1)) + digitValue(s[Len(s)])

\* whole seconds denoted by an HH:MM:SS text (HH has two or more digits)
secondsOf(text) ==
    LET n == Len(text)
    IN 3600 * number(SubSeq(text, 1, n - 6))
         + 60 * number(SubSeq(text, n - 4, n - 3))
         + number(SubSeq(text, n - 1, n))

reportedSeconds(r) == secondsOf(r.duration)

\* sum of the durations written in the records, in whole seconds
RECURSIVE sumReported(_)
sumReported(s) == IF s = <<>> THEN 0 ELSE reportedSeconds(Head(s)) + sumReported(Tail(s))

\* the result of the pass, once emitted
payload == emitted[1]

\* whole seconds written in the total record(s) of monitor m
totalsOf(m) ==
    {secondsOf(payload.totalDowntime[i].downTime) :
        i \in {j \in 1..Len(payload.totalDowntime) : payload.totalDowntime[j].monitor_id = m}}

\* the interval records of monitor m in the emitted result
emittedIntervals(m) == recordsOf(payload.downtimeStats, m)

\* ------------------------------------------------------------------- C1
\* C1 (as stated): after a completed pass, for every monitor the durations
\* of its emitted intervals, in seconds as written in the records, add up
\* exactly to the total written in its TotalDowntime record.
C1_SumEqualsTotal ==
    pc = "emitted" =>
        \A m \in Monitors : \A total \in totalsOf(m) :
            sumReported(emittedIntervals(m)) = total

\* C1 (amended): after a completed pass, for every monitor the total written
\* in its TotalDowntime record is at least the sum of the durations written
\* in its interval records and at most the sum of upTime - downTime over
\* them; the three agree when every duration is a whole number of seconds.
C1_TotalBetweenSums ==
    pc = "emitted" =>
        \A m \in Monitors : \A total \in totalsOf(m) :
            /\ sumReported(emittedIntervals(m)) <= total
            /\ total * MsPerSec <= sumExact(emittedIntervals(m))
            /\ (\A i \in 1..Len(emittedIntervals(m)) :
                     exactMs(emittedIntervals(m)[i]) % MsPerSec = 0)
                  => /\ sumReported(emittedIntervals(m)) = total
                     /\ total * MsPerSec = sumExact(emittedIntervals(m))

\* a completed pass in which two sub-second outages of one monitor add up to
\* a whole second that none of the interval records shows
C1_Witness ==
    /\ pc = "emitted"
    /\ \E m \in Monitors : \E total \in totalsOf(m) :
          /\ Len(emittedIntervals(m)) >= 2
          /\ sumReported(emittedIntervals(m)) < total
          /\ total > 0

\* ------------------------------------------------------------------- C2
\* C2 (as stated): the intervals of a monitor, in emission order, are
\* strictly increasing in downTime and each ends no later than the next
\* one starts.
C2_StrictlyIncreasing ==
    \A m \in Monitors : task[m] = "done" =>
        LET iv == recordsOf(downtimeStats, m)
        IN \A i \in 1..(Len(iv) - 1) :
              /\ iv[i].downTime < iv[i + 1].downTime
              /\ iv[i].upTime <= iv[i + 1].downTime

\* the heartbeats returned for monitor m have pairwise distinct timestamps
distinctTimes(m) ==
    \A i, j \in 1..Len(inRange(m)) : i # j => inRange(m)[i].time # inRange(m)[j].time

\* C2 (amended): the intervals of a monitor, in emission order, are
\* non-decreasing in downTime and each ends no later than the next one
\* starts; downTime is strictly increasing when the monitor's heartbeats
\* have pairwise distinct timestamps.
C2_OrderedNonOverlapping ==
    \A m \in Monitors : task[m] = "done" =>
        LET iv == recordsOf(downtimeStats, m)
        IN \A i \in 1..(Len(iv) - 1) :
              /\ iv[i].downTime <= iv[i + 1].downTime
              /\ iv[i].upTime <= iv[i + 1].downTime
              /\ distinctTimes(m) => iv[i].downTime < iv[i + 1].downTime

\* a monitor with two intervals of positive length one after the other
C2_Witness ==
    \E m \in Monitors :
        /\ task[m] = "done"
        /\ distinctTimes(m)
        /\ LET iv == recordsOf(downtimeStats, m)
           IN /\ Len(iv) >= 2
              /\ iv[1].downTime < iv[1].upTime
              /\ iv[1].upTime < iv[2].downTime

\* ------------------------------------------------------------------- C3
\* C3: in the emitted result the TotalDowntime records and the interval
\* records list the monitors in the order of monitorList, whatever the order
\* in which the heartbeat queries completed.
C3_ListingOrder ==
    pc = "emitted" =>
        /\ [i \in 1..Len(payload.totalDowntime) |-> payload.totalDowntime[i].monitor_id]
              = monitorList
        /\ \A i, j \in 1..Len(payload.downtimeStats) :
              i < j =>
                 \A a, b \in 1..Len(monitorList) :
                    (/\ monitorList[a] = payload.downtimeStats[i].monitor_id
                     /\ monitorList[b] = payload.downtimeStats[j].monitor_id) => a <= b

\* ------------------------------------------------------------------- C4
\* the n-th smallest element of a set of positions
nth(S, n) == CHOOSE x \in S : Cardinality({y \in S : y < x}) = n - 1

\* the interval that starts at position i of hb: it ends at the first up
\* observation after i, or at the window end when there is none
intervalFrom(hb, i, end) ==
    LET ups == {k \in (i + 1)..Len(hb) : hb[k].status = UP}
    IN [downTime |-> hb[i].time,
        upTime |-> IF ups = {} THEN end ELSE hb[nth(ups, 1)].time]

intervalsFrom(hb, starts, end) ==
    [n \in 1..Cardinality(starts) |-> intervalFrom(hb, nth(starts, n), end)]

bounds(iv) == [n \in 1..Len(iv) |-> [downTime |-> iv[n].downTime, upTime |-> iv[n].upTime]]

\* first positions of the maximal runs of consecutive down observations
downRunStarts(hb) ==
    {i \in 1..Len(hb) : hb[i].status = DOWN /\ (i = 1 \/ hb[i - 1].status # DOWN)}

\* the down observations with no earlier down observation since the last up
\* observation: the first down observation of every maximal run of
\* observations that are not up
outageStarts(hb) ==
    {i \in 1..Len(hb) :
        /\ hb[i].status = DOWN
        /\ \A j \in 1..(i - 1) :
              hb[j].status = DOWN => \E k \in (j + 1)..(i - 1) : hb[k].status = UP}

\* C4 (as stated): exactly one interval per maximal run of consecutive down
\* observations, from the run's first observation to the first up
\* observation after it, or to the window end if the run is still open at the
\* end of the sequence; no other interval.
C4_OnePerDownRun ==
    \A m \in Monitors : task[m] = "done" =>
        bounds(recordsOf(downtimeStats, m))
            = intervalsFrom(inRange(m), downRunStarts(inRange(m)), endTime)

\* C4 (amended): exactly one interval per maximal run of consecutive
\* observations that are not up (status other than 1) and that contains a
\* down observation: from the first down observation of the run to the up
\* observation that ends the run, or to the window end if the run reaches the
\* end of the sequence; no other interval.
C4_OnePerOutage ==
    \A m \in Monitors : task[m] = "done" =>
        bounds(recordsOf(downtimeStats, m))
            = intervalsFrom(inRange(m), outageStarts(inRange(m)), endTime)

\* an outage of positive length that goes through an observation that is
\* neither down nor up and is closed by an up observation
C4_Witness ==
    \E m \in Monitors :
        /\ task[m] = "done"
        /\ \E i, j, k \in 1..Len(inRange(m)) :
              /\ i < j /\ j < k
              /\ inRange(m)[i].status = DOWN
              /\ inRange(m)[j].status = PENDING
              /\ inRange(m)[k].status = UP
              /\ inRange(m)[i].time < inRange(m)[k].time
        /\ Len(recordsOf(downtimeStats, m)) = 1

\* ------------------------------------------------------------------- C5
lastOf(s) == s[Len(s)]

\* first position of the run of down observations the sequence ends with
finalDownRunStart(hb) ==
    nth({i \in 1..Len(hb) : \A k \in i..Len(hb) : hb[k].status = DOWN}, 1)

\* the total record of monitor m is the formatted sum of its intervals
totalCovers(m) ==
    recordsOf(totalDowntimeStats, m)
        = <<[monitor_id |-> m,
             downTime |-> formatTime(sumExact(recordsOf(downtimeStats, m)))]>>

\* C5 (as stated): if the last in-range observation is down, the last
\* interval ends at endTime, starts at the first observation of the final
\* run of down observations, and its duration is part of the total.
C5_FinalDownRunClosedAtEnd ==
    \A m \in Monitors :
        (task[m] = "done" /\ inRange(m) # <<>> /\ lastOf(inRange(m)).status = DOWN) =>
            LET iv == recordsOf(downtimeStats, m)
            IN /\ iv # <<>>
               /\ lastOf(iv).upTime = endTime
               /\ lastOf(iv).downTime = inRange(m)[finalDownRunStart(inRange(m))].time
               /\ lastOf(iv).duration = formatTime(endTime - lastOf(iv).downTime)
               /\ totalCovers(m)

\* C5 (amended): if the last in-range observation is down, the last interval
\* ends at endTime, starts at the first down observation after the last up
\* observation (the first down observation of the sequence when none is up),
\* and its duration endTime - downTime is part of the total.
C5_OpenOutageClosedAtEnd ==
    \A m \in Monitors :
        (task[m] = "done" /\ inRange(m) # <<>> /\ lastOf(inRange(m)).status = DOWN) =>
            LET iv == recordsOf(downtimeStats, m)
                starts == outageStarts(inRange(m))
            IN /\ iv # <<>>
               /\ lastOf(iv).upTime = endTime
               /\ lastOf(iv).downTime = inRange(m)[nth(starts, Cardinality(starts))].time
               /\ lastOf(iv).duration = formatTime(endTime - lastOf(iv).downTime)
               /\ totalCovers(m)

\* a monitor whose heartbeats end with a down observation before the window
\* end, after an earlier closed outage
C5_Witness ==
    \E m \in Monitors :
        /\ task[m] = "done"
        /\ inRange(m) # <<>>
        /\ lastOf(inRange(m)).status = DOWN
        /\ lastOf(inRange(m)).time < endTime
        /\ Len(recordsOf(downtimeStats, m)) = 2

\* ------------------------------------------------------------------- C6
zeroText == <<"0", "0", ":", "0", "0", ":", "0", "0">>

\* C6: a monitor with no in-range observation, or with up observations only,
\* gets no interval record and a total record that reads 00:00:00.
C6_NothingDown ==
    \A m \in Monitors :
        (task[m] = "done" /\ \A i \in 1..Len(inRange(m)) : inRange(m)[i].status = UP) =>
            /\ recordsOf(downtimeStats, m) = <<>>
            /\ recordsOf(totalDowntimeStats, m) = <<[monitor_id |-> m, downTime |-> zeroText]>>

\* one monitor without observations in the window and one with up
\* observations only, both folded
C6_Witness ==
    \E m, n \in Monitors :
        /\ task[m] = "done" /\ task[n] = "done"
        /\ inRange(m) = <<>> /\ heartbeat[m] # <<>>
        /\ Len(inRange(n)) >= 2
        /\ \A i \in 1..Len(inRange(n)) : inRange(n)[i].status = UP

\* ------------------------------------------------------------------- C7
\* s with a copy of its i-th element inserted right after it
insertDuplicate(s, i) == SubSeq(s, 1, i) \o <<s[i]>> \o SubSeq(s, i + 1, Len(s))

\* C7: the intervals and the total the pass computed for a monitor are what
\* the fold computes when any one of its observations is followed by a
\* duplicate (same status, same timestamp).
C7_DuplicateIgnored ==
    \A m \in Monitors : task[m] = "done" =>
        \A i \in 1..Len(inRange(m)) :
            LET st == foldMonitor(m, <<>>, insertDuplicate(inRange(m), i), endTime)
            IN /\ st.downtimeStats = recordsOf(downtimeStats, m)
               /\ pushTotal(<<>>, m, st.totalDowntime) = recordsOf(totalDowntimeStats, m)

\* a folded monitor with a closed outage of positive length followed by an
\* up observation
C7_Witness ==
    \E m \in Monitors :
        /\ task[m] = "done"
        /\ Len(inRange(m)) >= 3
        /\ \E i \in 1..(Len(inRange(m)) - 1) :
              inRange(m)[i].status = UP /\ inRange(m)[i + 1].status = UP
        /\ \E j \in 1..Len(recordsOf(downtimeStats, m)) :
              exactMs(recordsOf(downtimeStats, m)[j]) > 0

\* ------------------------------------------------------------------- C8
\* C8: a pass called with startTime > endTime issues no query and emits
\* nothing: it is rejected.
C8_InvalidWindowRejected ==
    (pc # "idle" /\ startTime > endTime) =>
        /\ queries = 0
        /\ emitted = <<>>
        /\ pc = "rejected"

\* ------------------------------------------------------------------- C9
\* C9: once the heartbeat query of a monitor has failed, the pass has
\* failed as a whole: the caller's promise is rejected and nothing is or has
\* been emitted.
C9_FailedFetchFailsPass ==
    (\E m \in Monitors : task[m] = "failed") =>
        /\ pc = "rejected"
        /\ emitted = <<>>

\* one heartbeat query failed while every other callback ran to its end
C9_Witness ==
    /\ \E m \in Monitors : task[m] = "failed"
    /\ \E m \in Monitors : task[m] = "done"
    /\ \A m \in Monitors : task[m] \in {"failed", "done"}
    /\ Len(totalDowntimeStats) < Len(monitorList)

\* ------------------------------------------------------------------ C10
\* C10: the emitted TotalDowntime sequence holds exactly one record for
\* every listed monitor and nothing else, also for monitors without any
\* interval.
C10_OneTotalPerMonitor ==
    pc = "emitted" =>
        /\ Len(payload.totalDowntime) = Len(monitorList)
        /\ \A k \in 1..Len(monitorList) :
              Cardinality({i \in 1..Len(payload.totalDowntime) :
                              payload.totalDowntime[i].monitor_id = monitorList[k]}) = 1

\* an emitted result in which one monitor has intervals and another has none
C10_Witness ==
    /\ pc = "emitted"
    /\ \E m, n \in Monitors :
          /\ emittedIntervals(m) = <<>>
          /\ emittedIntervals(n) # <<>>

\* ------------------------------------------------------------------ C11
\* C11: a pass emits at most once, only when the callback of every listed
\* monitor has finished, and the two arrays are never appended to after they
\* have been emitted.
C11_OneEmissionAfterAllFolds ==
    /\ Len(emitted) <= 1
    /\ emitted # <<>> =>
          /\ \A k \in 1..Len(monitorList) : task[monitorList[k]] = "done"
          /\ Len(monitorList) = NumMonitors
          /\ payload.downtimeStats = downtimeStats
          /\ payload.totalDowntime = totalDowntimeStats

\* a result with intervals has been emitted
C11_Witness ==
    /\ Len(emitted) = 1
    /\ pc = "emitted"
    /\ Len(payload.downtimeStats) >= 2

\* ------------------------------------------------------------------ C12
outstanding == Cardinality({m \in Monitors : task[m] = "fetching"})

\* C12: the number of heartbeat queries outstanding at the same time stays
\* within a bound that does not grow with the number of monitors: with more
\* than one monitor listed, not every monitor's query is outstanding at once.
C12_BoundedParallelism ==
    Len(monitorList) > 1 => outstanding < Len(monitorList)

\* ------------------------------------------------------------------ C13
\* C13: if the first in-range observation of a monitor is down, its first
\* interval starts at that observation's timestamp, not at startTime, and
\* the total is the sum over the intervals so started: the time between
\* startTime and that observation is not counted.
C13_FirstDownStartsInterval ==
    \A m \in Monitors :
        (task[m] = "done" /\ inRange(m) # <<>> /\ inRange(m)[1].status = DOWN) =>
            LET iv == recordsOf(downtimeStats, m)
            IN /\ iv # <<>>
               /\ iv[1].downTime = inRange(m)[1].time
               /\ totalCovers(m)

\* a monitor whose first in-range observation is down and later than startTime
C13_Witness ==
    \E m \in Monitors :
        /\ task[m] = "done"
        /\ inRange(m) # <<>>
        /\ inRange(m)[1].status = DOWN
        /\ inRange(m)[1].time > startTime
        /\ recordsOf(downtimeStats, m)[1].upTime > inRange(m)[1].time

\* ------------------------------------------------------------------ C14
\* what the fold of monitor m gives on its own observations and the window
\* end alone, starting from empty arrays
alone(m) == foldMonitor(m, <<>>, inRange(m), endTime)

\* C14: whatever the order in which the callbacks ran and whatever the other
\* monitors pushed, the interval records and the total record of a monitor
\* are those its fold gives on its own observations and the window alone.
C14_DependsOnOwnObservations ==
    \A m \in Monitors : task[m] = "done" =>
        /\ recordsOf(downtimeStats, m) = alone(m).downtimeStats
        /\ recordsOf(totalDowntimeStats, m) = pushTotal(<<>>, m, alone(m).totalDowntime)

\* a monitor with an outage folded after another monitor has pushed an
\* interval of positive length
C14_Witness ==
    \E m \in Monitors :
        /\ task[m] = "done"
        /\ downtimeStats # <<>>
        /\ downtimeStats[1].monitor_id # m
        /\ exactMs(downtimeStats[1]) > 0
        /\ totalDowntimeStats[1].monitor_id # m
        /\ recordsOf(downtimeStats, m) # <<>>

\* ------------------------------------------------------------------ C15
\* C15: in every state of every interleaving, the interval records of one
\* monitor lie next to each other in downtimeStats, and the monitors' blocks
\* follow each other in the order of the monitors' records in
\* totalDowntimeStats.
C15_BlocksInTotalsOrder ==
    /\ \A i, j \in 1..Len(downtimeStats) :
          (i < j /\ downtimeStats[i].monitor_id = downtimeStats[j].monitor_id) =>
              \A k \in i..j : downtimeStats[k].monitor_id = downtimeStats[i].monitor_id
    /\ \A i, j \in 1..Len(downtimeStats) :
          (i < j /\ downtimeStats[i].monitor_id # downtimeStats[j].monitor_id) =>
              \A p, q \in 1..Len(totalDowntimeStats) :
                  (/\ totalDowntimeStats[p].monitor_id = downtimeStats[i].monitor_id
                   /\ totalDowntimeStats[q].monitor_id = downtimeStats[j].monitor_id) => p < q

\* a monitor with two intervals folded after another monitor pushed one
C15_Witness ==
    \E m, n \in Monitors :
        /\ m # n
        /\ task[m] = "done" /\ task[n] = "done"
        /\ Len(recordsOf(downtimeStats, m)) = 2
        /\ recordsOf(downtimeStats, n) # <<>>
        /\ downtimeStats[1].monitor_id = n

\* ------------------------------------------------------------------ C16
\* C16: every interval record lies inside the window and runs forward,
\* startTime <= downTime <= upTime <= endTime, so that no duration and no
\* total is negative.
C16_IntervalsInsideWindow ==
    \A m \in Monitors : task[m] = "done" =>
        /\ \A i \in 1..Len(recordsOf(downtimeStats, m)) :
              LET r == recordsOf(downtimeStats, m)[i]
              IN /\ startTime <= r.downTime
                 /\ r.downTime <= r.upTime
                 /\ r.upTime <= endTime
                 /\ \A c \in 1..Len(r.duration) : r.duration[c] # "-"
        /\ alone(m).totalDowntime >= 0
        /\ \A i \in 1..Len(recordsOf(totalDowntimeStats, m)) :
              LET text == recordsOf(totalDowntimeStats, m)[i].downTime
              IN \A c \in 1..Len(text) : text[c] # "-"

\* a monitor with a down heartbeat before the window start and an interval
\* of positive length inside the window
C16_Witness ==
    \E m \in Monitors :
        /\ task[m] = "done"
        /\ heartbeat[m] # <<>>
        /\ heartbeat[m][1].time < startTime
        /\ heartbeat[m][1].status = DOWN
        /\ \E i \in 1..Len(recordsOf(downtimeStats, m)) :
              exactMs(recordsOf(downtimeStats, m)[i]) > 0

\* ------------------------------------------------------------------ C17
\* the state of the fold of monitor m after its first k observations
prefixState(m, k) == forEach(m, foldInit(<<>>), SubSeq(inRange(m), 1, k))

\* C17: an observation whose status is neither 0 nor 1 leaves isDown,
\* downTime, totalDowntime and the interval list as they were.
C17_OtherStatusIgnored ==
    \A m \in Monitors : task[m] = "done" =>
        \A k \in 1..Len(inRange(m)) :
            inRange(m)[k].status \notin {DOWN, UP} =>
                forEachBeat(m, prefixState(m, k - 1), inRange(m)[k]) = prefixState(m, k - 1)

\* an observation that is neither down nor up arrives while an outage is
\* open, and one arrives while none is
C17_Witness ==
    \E m \in Monitors :
        /\ task[m] = "done"
        /\ \E k \in 1..Len(inRange(m)) :
              /\ inRange(m)[k].status = PENDING
              /\ prefixState(m, k - 1).isDown
              /\ prefixState(m, k - 1).downTime < inRange(m)[k].time
        /\ \E k \in 1..Len(inRange(m)) :
              /\ inRange(m)[k].status = PENDING
              /\ ~prefixState(m, k - 1).isDown

\* ------------------------------------------------------------------ C20
\* C20: after every observation of a monitor's fold, isDown is true exactly
\* when downTime holds a timestamp, so the interval closed at the window end
\* starts at a timestamp.
C20_DownTimeSetIffDown ==
    \A m \in Monitors : task[m] = "done" =>
        /\ \A k \in 0..Len(inRange(m)) :
              prefixState(m, k).isDown <=> (prefixState(m, k).downTime # NoTime)
        /\ prefixState(m, Len(inRange(m))).isDown =>
              lastOf(recordsOf(downtimeStats, m)).downTime \in Times

\* a fold that closed one outage and ends inside a second one
C20_Witness ==
    \E m \in Monitors :
        /\ task[m] = "done"
        /\ prefixState(m, Len(inRange(m))).isDown
        /\ Len(prefixState(m, Len(inRange(m))).downtimeStats) = 1
        /\ \E k \in 1..Len(inRange(m)) : ~prefixState(m, k).isDown

\* ------------------------------------------------------------------ C18
\* C18: a pass that has been called and none of whose queries fails ends up
\* having emitted its result, once: from the call on, either a query is
\* rejected or the result gets emitted exactly once.
C18_EventuallyEmits ==
    (pc = "listing") ~> (pc = "rejected" \/ (pc = "emitted" /\ Len(emitted) = 1))

\* every query returned and a result without any interval has been emitted
C18_Witness ==
    /\ pc = "emitted"
    /\ Len(emitted) = 1
    /\ \A m \in Monitors : task[m] = "done"
    /\ payload.downtimeStats = <<>>
    /\ Len(payload.totalDowntime) = NumMonitors

\* ------------------------------------------------------------------ C19
\* the three fields of an HH:MM:SS text
hoursOf(text) == number(SubSeq(text, 1, Len(text) - 6))
minutesOf(text) == number(SubSeq(text, Len(text) - 4, Len(text) - 3))
lastSecondsOf(text) == number(SubSeq(text, Len(text) - 1, Len(text)))

\* C19: for a whole number of seconds time >= 0, formatTime gives
\* hours = floor(time / 3600), not carried into days, minutes and seconds
\* within 0..59, and hours * 3600 + minutes * 60 + seconds = time.
C19_FormatTimeFields ==
    formatted # <<>> =>
        /\ Len(formatted) >= 8
        /\ formatted[Len(formatted) - 2] = ":"
        /\ formatted[Len(formatted) - 5] = ":"
        /\ \A i \in (1..Len(formatted)) \ {Len(formatted) - 2, Len(formatted) - 5} :
              \E d \in 1..10 : formatted[i] = Digits[d]
        /\ hoursOf(formatted) = time \div 3600
        /\ minutesOf(formatted) \in 0..59
        /\ lastSecondsOf(formatted) \in 0..59
        /\ hoursOf(formatted) * 3600 + minutesOf(formatted) * 60
              + lastSecondsOf(formatted) = time

\* formatTime applied to more than a day: the hours field reads 24 or more
C19_Witness ==
    /\ formatted # <<>>
    /\ time > 24 * 3600
    /\ hoursOf(formatted) >= 24
    /\ minutesOf(formatted) = 59
    /\ lastSecondsOf(formatted) = 59
====
